---- MODULE Spec2Model ----
(***************************************************************************)
(* Model of the discovery / validate / learn loop of bharat-connect:       *)
(*   - ValidationStore            (src/agents/validation_store.py)         *)
(*   - AIValidatorAgent           (src/agents/validator_agent.py)          *)
(*   - RAGAgent, FeedValidator    (src/agents/rag_agent.py)                *)
(*   - CoordinatorAgent           (src/agents/coordinator.py)              *)
(*   - main()                     (src/agents/main.py)                     *)
(*                                                                         *)
(* URLs are abstracted to integers: 0 is the empty string, a negative      *)
(* number -k is a relative URL (no "http" prefix) that urljoin resolves    *)
(* to the absolute URL k, and a positive number is an absolute http URL.   *)
(***************************************************************************)
EXTENDS Integers, Sequences, FiniteSets, TLC

\* ------------------------------------------------------------------ bounds
NumUrls == 2
MaxCalls == 2
MaxFeeds == 2
MaxCands == 1
MaxIterations == 4
Epoch == 100
MaxTime == 240
NumRunIds == 2
MaxOps == 3
MaxRuns == 2
MaxSeeds == 2
MaxSuggestions == 1
MaxGenIterations == 2
MaxHistory == 3
MaxNew == 3
MaxParams == 3
MaxValues == 6
MaxRows == 2
MaxLimit == 2

\* ------------------------------------------------------- program constants
DefaultMinQuality == 60
FallbackScore == 50
ApiDelay == 60
MaxTotalWait == 60
Backoff == 2

AbsUrls == 1..NumUrls
RelUrls == {-1}
EmptyUrl == 0
Urls == RelUrls \cup {EmptyUrl} \cup AbsUrls

Validators == {"coordinator", "rag"}

VARIABLES
    min_quality_score,  \* AIValidatorAgent.min_quality_score, per validator instance
    validation_cache,   \* AIValidatorAgent.validation_cache, per validator instance
    store_ok,           \* AIValidatorAgent.store is not None, per validator instance
    store_writable,     \* whether an INSERT/commit on the database file succeeds
    calls,              \* operations made on a validator / store used on its own
    rows,               \* the rows of table validations, in insertion order
    saves,              \* number of save_report calls that returned normally
    last,               \* what the last operation was and what it returned
    fetched,            \* result of the last fetch_recent
    driver,             \* who drives the run: CoordinatorAgent.execute_discovery or main()
    pc,                 \* position of the driver
    max_iterations,     \* CoordinatorAgent.max_iterations
    all_discovered_feeds, \* CoordinatorAgent.all_discovered_feeds
    validated_feeds,    \* CoordinatorAgent.validated_feeds
    iteration,          \* loop variable of _phase_2_rag_iterations
    run_calls,          \* calls of RAGAgent.run_iteration made by the current run
    results,            \* the dict returned by _phase_final_analysis
    ai_validator,       \* RAGAgent.ai_validator is not None
    light_cache,        \* FeedValidator.cache of RAGAgent.feed_validator
    discovered_feeds,   \* RAGAgent.discovered_feeds
    iteration_count,    \* RAGAgent.iteration_count
    stats_iterations,   \* RAGAgent.stats["iterations"]
    ever_valid,         \* urls some validator has returned as valid
    agent,              \* the agent whose Gemini calls are followed
    now,                \* time.time(), in seconds
    last_api_call,      \* the agent's last_api_call
    gpc,                \* position inside the agent's Gemini retry loop
    start_time,         \* start_time of the current invocation
    attempt,            \* attempt of the current invocation
    call_start,         \* time at which the last generate_content call started
    slot,               \* what the last _wait_for_api_slot was asked and did
    outcome,            \* how the last invocation ended
    files,              \* the .json files of the checkpoint directory: text and write time
    wclock,             \* number of file writes so far (orders the write times)
    kops,               \* CheckpointManager operations made on the manager used on its own
    klast,              \* the last CheckpointManager operation and what it did
    saved_feeds,        \* per run id, the feeds of the last save that returned normally
    mpc,                \* position of main()
    mruns,              \* runs of main() started so far
    force_phase1,       \* force_phase1 of the current run (argument or FORCE_PHASE1)
    checkpoint,         \* main()'s local checkpoint
    phase_1_feeds,      \* main()'s local phase_1_feeds
    discover_ran,       \* whether the current run has called discover
    moutcome,           \* how the last finished run of main() ended
    current_feeds,      \* the feeds handed to RAGAgent.learn_patterns
    learned_patterns,   \* RAGAgent.learned_patterns
    candidates,         \* what the last generate_candidates returned
    rag_known,          \* urls of RAGAgent.discovered_feeds, as url records
    gen_last,           \* the last generator operation and its arguments
    gen_llm,            \* what the pattern learner returned to the last learn_patterns, and the set order
    iteration_history,  \* LearningAgent.iteration_history
    llast,              \* the last operation on a LearningAgent used on its own, and its result
    rss_table,          \* the rows of rss_content that match the query, newest first
    diksha_table,       \* the rows of diksha_content that match the query, newest first
    qlast               \* the last process_query: its arguments, its searches and its response

vvars == <<min_quality_score, validation_cache, store_ok, store_writable, calls, rows, saves,
           last, fetched>>
cvars == <<driver, pc, max_iterations, all_discovered_feeds, validated_feeds, iteration,
           run_calls, results>>
rvars == <<ai_validator, light_cache, discovered_feeds, iteration_count, stats_iterations>>
tvars == <<agent, now, last_api_call, gpc, start_time, attempt, call_start, slot, outcome>>
kvars == <<files, wclock, kops, klast, saved_feeds, mpc, mruns, force_phase1, checkpoint,
           phase_1_feeds, discover_ran, moutcome>>
gvars == <<current_feeds, learned_patterns, candidates, rag_known, gen_last, gen_llm>>
lvars == <<iteration_history, llast>>
qvars == <<rss_table, diksha_table, qlast>>
ovars == <<kvars, gvars, lvars, qvars>>
vars == <<vvars, cvars, rvars, ever_valid, tvars, ovars>>

\* ----------------------------------------------------------------- helpers
Min(a, b) == IF a <= b THEN a ELSE b
Max(a, b) == IF a >= b THEN a ELSE b

\* str.startswith("http") on a non-empty stripped url
StartsWithHttp(u) == u > 0

\* Python dict update d[k] = v
DictPut(d, k, v) == [x \in (DOMAIN d) \cup {k} |-> IF x = k THEN v ELSE d[x]]

EmptyDict == [x \in {} |-> 0]

\* ------------------------------------------------------- ValidationStore
\* One row of table validations; id is the AUTOINCREMENT key, ts the
\* insertion rank of the timestamp column.
Row(id, url, source, valid, has_q, q) ==
    [id |-> id, url |-> url, ts |-> id, source |-> source, validator |-> "ai",
     valid |-> valid, has_quality |-> has_q, quality_score |-> q]

\* an INSERT OR REPLACE keyed by url in place of the plain INSERT
save_report_replace(R, url, source, valid, has_q, q) ==
    IF \E i \in 1..Len(R) : R[i].url = url
    THEN [i \in 1..Len(R) |-> IF R[i].url = url
                              THEN Row(R[i].id, url, source, valid, has_q, q) ELSE R[i]]
    ELSE Append(R, Row(Len(R) + 1, url, source, valid, has_q, q))

\* ValidationStore.save_report: one INSERT followed by commit.
save_report(R, url, source, valid, has_q, q) ==
    Append(R, Row(Len(R) + 1, url, source, valid, has_q, q))

\* ValidationStore.fetch_recent: SELECT ... ORDER BY timestamp DESC LIMIT ?
RECURSIVE Reverse(_)
Reverse(s) == IF s = <<>> THEN <<>> ELSE Append(Reverse(Tail(s)), Head(s))

fetch_recent(R, limit) ==
    LET rev == Reverse(R)
    IN  SubSeq(rev, 1, Min(limit, Len(rev)))

\* ------------------------------------------------------ AIValidatorAgent
\* What the outside world answers during one validate_feed call.
\*   fetch  : outcome of requests.get
\*   status : HTTP status when fetch = "response"
\*   isfeed : _is_feed_format(content)
\*   llm    : outcome of _assess_with_gemini
\*   score  : the quality_score of the LLM's JSON when llm = "score"
\* Fields that the call does not look at are kept at one value.
FetchOutcomes == {"response", "timeout", "error"}
Statuses == {399, 400}
LlmOutcomes == {"score", "nonnumeric", "fallback", "raise"}
ScoreVals == {59, 60, 150}

Worlds ==
    {w \in [fetch : FetchOutcomes, status : Statuses, isfeed : BOOLEAN,
            llm : LlmOutcomes, score : ScoreVals] :
        /\ (w.fetch # "response") => (w.status = 399)
        /\ (w.fetch # "response" \/ w.status >= 400) => w.isfeed
        /\ ~w.isfeed => (w.llm = "score")
        /\ (w.fetch # "response" \/ w.status >= 400 \/ ~w.isfeed \/ w.llm # "score")
                => (w.score = 60)}

\* A validation report (the dict validate_feed builds).  score_kind is
\* "absent" when the dict has no "score" key, "int" for a number and
\* "other" for a non-numeric JSON value.
Report(url, valid, score_kind, score, errors, http_status) ==
    [url |-> url, valid |-> valid, score_kind |-> score_kind, score |-> score,
     errors |-> errors, http_status |-> http_status]

\* the try: self.store.save_report(...) except: pass block
TrySave(st, R, w, url, source, valid, has_q, q) ==
    IF st /\ store_writable THEN save_report(R, url, source, valid, has_q, q) ELSE R

\* exits that run a store.save_report(...) block before returning
SavingExits == {"no_url", "bad_url", "http_error", "timeout", "conn_failed", "not_feed", "scored"}

Ret(valid, report, cache, R, exit) ==
    [valid |-> valid, report |-> report, cache |-> cache, rows |-> R, exit |-> exit]

\* _assess_with_gemini as seen by validate_feed: the dict it returns
AssessScoreKind(w) == IF w.llm = "nonnumeric" THEN "other" ELSE "int"
AssessScore(w) ==
    CASE w.llm = "score" -> w.score
      [] w.llm = "fallback" -> FallbackScore
      [] OTHER -> 0

\* the decision with a strict comparison
FinalDecisionStrict(score, minq, errors) == score > minq /\ Len(errors) = 0

\* report["score"] >= self.min_quality_score and len(report["errors"]) == 0
FinalDecision(score, minq, errors) == score >= minq /\ Len(errors) = 0

\* AIValidatorAgent.validate_feed(url, source) on an instance whose cache is
\* c, whose store is present iff st, with table rows R.  isdict: the
\* argument is a feed dict {"url": u} and not a string.
validate_feed(c, st, minq, R, isdict, u, source, w) ==
    IF isdict /\ u = EmptyUrl THEN
        Ret(FALSE, Report(u, FALSE, "absent", 0, <<"No URL in feed dictionary">>, 0), c,
            TrySave(st, R, w, u, source, FALSE, FALSE, 0), "no_url")
    ELSE IF ~StartsWithHttp(u) THEN
        Ret(FALSE, Report(u, FALSE, "absent", 0, <<"Invalid URL format">>, 0), c,
            TrySave(st, R, w, u, source, FALSE, FALSE, 0), "bad_url")
    ELSE IF u \in DOMAIN c THEN
        Ret(c[u].valid, c[u].report, c, R, "cached")
    ELSE IF w.fetch = "response" /\ w.status >= 400 THEN
        LET rep == Report(u, FALSE, "int", 0, <<"HTTP">>, w.status)
        IN  Ret(FALSE, rep, DictPut(c, u, [valid |-> FALSE, report |-> rep]),
                TrySave(st, R, w, u, source, FALSE, FALSE, 0), "http_error")
    ELSE IF w.fetch = "timeout" THEN
        LET rep == Report(u, FALSE, "int", 0, <<"HTTP request timeout">>, 0)
        IN  Ret(FALSE, rep, DictPut(c, u, [valid |-> FALSE, report |-> rep]),
                TrySave(st, R, w, u, source, FALSE, FALSE, 0), "timeout")
    ELSE IF w.fetch = "error" THEN
        LET rep == Report(u, FALSE, "int", 0, <<"Connection failed">>, 0)
        IN  Ret(FALSE, rep, DictPut(c, u, [valid |-> FALSE, report |-> rep]),
                TrySave(st, R, w, u, source, FALSE, FALSE, 0), "conn_failed")
    ELSE IF ~w.isfeed THEN
        LET rep == Report(u, FALSE, "int", 0, <<"Not a valid RSS/Atom feed">>, w.status)
        IN  Ret(FALSE, rep, DictPut(c, u, [valid |-> FALSE, report |-> rep]),
                TrySave(st, R, w, u, source, FALSE, FALSE, 0), "not_feed")
    ELSE IF w.llm = "raise" THEN
        \* _assess_with_gemini raised: report.update was not reached
        LET rep == Report(u, FALSE, "int", 0, <<"AI assessment failed">>, w.status)
        IN  Ret(FALSE, rep, DictPut(c, u, [valid |-> FALSE, report |-> rep]), R, "ai_failed")
    ELSE IF w.llm = "nonnumeric" THEN
        \* report.update ran, then the comparison score >= min raised TypeError
        LET rep == Report(u, FALSE, "other", 0, <<"AI assessment failed">>, w.status)
        IN  Ret(FALSE, rep, DictPut(c, u, [valid |-> FALSE, report |-> rep]), R, "ai_failed")
    ELSE
        LET s == AssessScore(w)
            v == FinalDecision(s, minq, <<>>)
            rep == Report(u, v, AssessScoreKind(w), s, <<>>, w.status)
        IN  Ret(v, rep, DictPut(c, u, [valid |-> v, report |-> rep]),
                TrySave(st, R, w, u, source, v, TRUE, s), "scored")

\* ------------------------------------------------- validator / store steps
NoCall == [op |-> "none"]

MinQualityChoices == {FallbackScore, DefaultMinQuality}

\* limits fetch_recent is called with (100 is its default)
Limits == {1, 100}

\* one call validator.validate_feed(arg, source)
ValidateFeedCall(v, isdict, u, w) ==
    /\ calls < MaxCalls
    /\ calls' = calls + 1
    /\ LET r == validate_feed(validation_cache[v], store_ok[v], min_quality_score[v],
                              rows, isdict, u, "legit", w)
       IN  /\ validation_cache' = [validation_cache EXCEPT ![v] = r.cache]
           /\ rows' = r.rows
           /\ saves' = saves + (IF r.exit \in SavingExits /\ store_ok[v] /\ store_writable
                                THEN 1 ELSE 0)
           /\ last' = [op |-> "validate_feed", v |-> v, isdict |-> isdict, url |-> u,
                       world |-> w, exit |-> r.exit, valid |-> r.valid, report |-> r.report,
                       rows_added |-> Len(r.rows) - Len(rows)]
           /\ ever_valid' = IF r.valid THEN ever_valid \cup {u} ELSE ever_valid
    /\ UNCHANGED <<ovars, tvars, min_quality_score, store_ok, store_writable, fetched, cvars, rvars>>

\* a direct store.save_report(...) as in _smoke_validation_store.main; the
\* call raises when the database cannot be written
SaveReportCall(u, valid, q) ==
    /\ calls < MaxCalls
    /\ calls' = calls + 1
    /\ rows' = IF store_writable THEN save_report(rows, u, "test", valid, TRUE, q)
               ELSE rows
    /\ saves' = IF store_writable THEN saves + 1 ELSE saves
    /\ last' = [op |-> "save_report", url |-> u, rows_added |-> Len(rows') - Len(rows)]
    /\ UNCHANGED <<ovars, tvars, min_quality_score, validation_cache, store_ok, store_writable, fetched,
                   cvars, rvars, ever_valid>>

\* store.fetch_recent(limit)
FetchRecentCall(limit) ==
    /\ calls < MaxCalls
    /\ calls' = calls + 1
    /\ fetched' = fetch_recent(rows, limit)
    /\ last' = [op |-> "fetch_recent", limit |-> limit]
    /\ UNCHANGED <<ovars, tvars, min_quality_score, validation_cache, store_ok, store_writable, rows, saves,
                   cvars, rvars, ever_valid>>

NextValidator ==
    \/ \E isdict \in BOOLEAN, u \in Urls, w \in Worlds :
            ValidateFeedCall("coordinator", isdict, u, w)
    \/ \E u \in AbsUrls, valid \in BOOLEAN, q \in ScoreVals : SaveReportCall(u, valid, q)
    \/ \E limit \in Limits : FetchRecentCall(limit)

\* ------------------------------------------------------------ batches
\* AIValidatorAgent.validate_batch, first loop: the urls to validate.
\* A feed is a dict [url |-> u]; dicts whose url is empty are skipped.
RECURSIVE urls_to_validate(_)
urls_to_validate(feeds) ==
    IF feeds = <<>> THEN <<>>
    ELSE IF Head(feeds).url # EmptyUrl
         THEN <<Head(feeds).url>> \o urls_to_validate(Tail(feeds))
         ELSE urls_to_validate(Tail(feeds))

\* AIValidatorAgent.validate_batch, second loop: validate_feed on each url in
\* turn, ws[i] being what the world answers to the i-th call.
RECURSIVE batch_loop(_, _, _, _, _, _, _)

\* the "if is_valid: validated_feeds.append(report) else: rejected_feeds.append(report)"
\* of one pass, r being what validate_feed returned and rest the later passes
batch_append(r, st, rest) ==
    [cache |-> rest.cache, rows |-> rest.rows,
     validated_feeds |-> IF r.valid THEN <<r.report>> \o rest.validated_feeds
                         ELSE rest.validated_feeds,
     rejected_feeds |-> IF r.valid THEN rest.rejected_feeds
                        ELSE <<r.report>> \o rest.rejected_feeds,
     saved |-> rest.saved + (IF r.exit \in SavingExits /\ st /\ store_writable THEN 1 ELSE 0)]

\* one pass of the loop, r being what validate_feed returned for Head(urls)
batch_pass(r, st, minq, urls, source, ws) ==
    batch_append(r, st, batch_loop(r.cache, st, minq, r.rows, Tail(urls), source, Tail(ws)))

batch_loop(c, st, minq, R, urls, source, ws) ==
    IF urls = <<>>
    THEN [cache |-> c, rows |-> R, validated_feeds |-> <<>>, rejected_feeds |-> <<>>, saved |-> 0]
    ELSE batch_pass(validate_feed(c, st, minq, R, FALSE, Head(urls), source, Head(ws)),
                    st, minq, urls, source, ws)

\* the dict validate_batch returns, b being the outcome of its second loop
batch_results(total_tested, b) ==
    [cache |-> b.cache, rows |-> b.rows, saved |-> b.saved,
     total_tested |-> total_tested,
     valid_count |-> Len(b.validated_feeds),
     invalid_count |-> Len(b.rejected_feeds),
     validated_feeds |-> b.validated_feeds,
     rejected_feeds |-> b.rejected_feeds]

validate_batch(c, st, minq, R, feeds, source, ws) ==
    LET urls == urls_to_validate(feeds)
    IN  batch_results(Len(urls), batch_loop(c, st, minq, R, urls, source, ws))

\* FeedValidator.validate (the lightweight validator of rag_agent.py)
light_validate(c, u, w) ==
    IF u \in DOMAIN c THEN [valid |-> c[u].valid, report |-> c[u].report, cache |-> c]
    ELSE LET v == w.fetch = "response" /\ w.status < 400 /\ w.isfeed
             rep == Report(u, v, "absent", 0, <<>>, IF w.fetch = "response" THEN w.status ELSE 0)
         IN  [valid |-> v, report |-> rep, cache |-> DictPut(c, u, [valid |-> v, report |-> rep])]

\* FeedValidator.validate_batch: the metadata of the valid urls
RECURSIVE light_validate_batch(_, _, _)

\* "if is_valid: valid_feeds.append(metadata)", r being what validate returned
light_append(r, rest) ==
    [cache |-> rest.cache,
     valid_feeds |-> IF r.valid THEN <<r.report>> \o rest.valid_feeds ELSE rest.valid_feeds]

light_pass(r, urls, ws) == light_append(r, light_validate_batch(r.cache, Tail(urls), Tail(ws)))

light_validate_batch(c, urls, ws) ==
    IF urls = <<>> THEN [cache |-> c, valid_feeds |-> <<>>]
    ELSE light_pass(light_validate(c, Head(urls), Head(ws)), urls, ws)

RECURSIVE UrlsOf(_)
UrlsOf(feeds) == IF feeds = <<>> THEN {} ELSE {Head(feeds).url} \cup UrlsOf(Tail(feeds))

\* --------------------------------------------------------------- RAGAgent
\* RAGAgent.validate_candidates(candidates) followed by the bookkeeping of
\* run_iteration: the state of the RAG agent and of its validator after an
\* iteration that ran to the end, and the iteration_result it returns.
iteration_result(cands, validated, rejected) ==
    [iteration |-> iteration_count + 1,
     candidates_generated |-> Len(cands),
     validated_count |-> Len(validated),
     rejected_count |-> Len(rejected),
     new_feeds_found |-> Len(validated),
     total_feeds |-> Len(discovered_feeds) + Len(validated)]

\* validate_candidates with the AI validator, b being what validate_batch returned
ai_iteration(cands, b) ==
    [cache |-> b.cache, light |-> light_cache, rows |-> b.rows, saved |-> b.saved,
     discovered_feeds |-> discovered_feeds \o b.validated_feeds,
     validated |-> b.validated_feeds, rejected |-> b.rejected_feeds,
     result |-> iteration_result(cands, b.validated_feeds, b.rejected_feeds)]

\* validate_candidates with the lightweight validator, b being what
\* FeedValidator.validate_batch returned
light_iteration(cands, b) ==
    [cache |-> validation_cache["rag"], light |-> b.cache, rows |-> rows, saved |-> 0,
     discovered_feeds |-> discovered_feeds \o b.valid_feeds,
     validated |-> b.valid_feeds, rejected |-> <<>>,
     result |-> iteration_result(cands, b.valid_feeds, <<>>)]

run_iteration(cands, ws) ==
    IF ai_validator
    THEN ai_iteration(cands,
                      validate_batch(validation_cache["rag"], store_ok["rag"],
                                     min_quality_score["rag"], rows,
                                     [i \in 1..Len(cands) |-> [url |-> cands[i]]], "rag", ws))
    ELSE light_iteration(cands, light_validate_batch(light_cache, cands, ws))

\* RAGAgent.should_stop_iteration: self.stats["iterations"][-2:] all zero
should_stop_iteration(count, its) ==
    IF count < 2 THEN FALSE
    ELSE \A i \in Max(1, Len(its) - 1)..Len(its) : its[i].new_feeds_found = 0

\* --------------------------------------------------------- CoordinatorAgent
\* the combined list kept as it is, without the "url not in unique_feeds" test
unique_feeds_all(acc, feeds) == acc \o feeds

\* the unique_feeds dict of _phase_final_analysis, in insertion order
RECURSIVE unique_feeds(_, _)
unique_feeds(acc, feeds) ==
    IF feeds = <<>> THEN acc
    ELSE LET f == Head(feeds)
         IN  IF f.url # EmptyUrl /\ f.url \notin UrlsOf(acc)
             THEN unique_feeds(Append(acc, f), Tail(feeds))
             ELSE unique_feeds(acc, Tail(feeds))

\* CoordinatorAgent._phase_final_analysis: discovered_feeds and summary
_phase_final_analysis(all, validated) ==
    LET uf == unique_feeds(<<>>, all \o validated)
    IN  [discovered_feeds |-> uf, total_unique_feeds |-> Len(uf),
         total_iterations |-> iteration_count]

NoResults == [discovered_feeds |-> <<>>, total_unique_feeds |-> 0, total_iterations |-> 0]

\* the worlds the runs are explored with
RunWorlds == {w \in Worlds : w.fetch = "response" /\ w.isfeed /\ w.llm = "score"
                              /\ w.score = 60}

\* lists a discovery (or a checkpoint) can hand over
FeedLists == UNION {[1..n -> [url : Urls]] : n \in 0..MaxFeeds}

\* candidate lists generate_candidates can return: clean absolute urls,
\* pairwise distinct
CandidateLists ==
    {c \in UNION {[1..n -> AbsUrls] : n \in 0..MaxCands} :
        \A i, j \in 1..Len(c) : i # j => c[i] # c[j]}

NoSlot == [asked |-> FALSE, ret |-> TRUE, wait |-> 0, max_wait |-> 0, slept |-> 0]

\* the rate-limiting state of an agent that has made no Gemini call
NoGeminiCalls ==
    /\ now = Epoch
    /\ last_api_call = 0
    /\ gpc = "idle"
    /\ start_time = 0
    /\ attempt = 0
    /\ call_start = 0
    /\ slot = NoSlot
    /\ outcome = "none"

\* ------------------------------------------------------ CheckpointManager
\* Run ids are numbered in the order of their strings; RUN_ID is the one
\* main() uses.
RunIds == 1..NumRunIds
RUN_ID == 1

None == [type |-> "None"]

\* The .json files of the checkpoint directory.  A file is named by its
\* kind and run id: <checkpoint_dir>/<kind>_checkpoint_<run_id>.json
Kinds == {"final_results", "phase_1"}
Names == [kind : Kinds, run_id : RunIds]
Phase1File(r) == [kind |-> "phase_1", run_id |-> r]
FinalFile(r) == [kind |-> "final_results", run_id |-> r]

\* position of a path in the order of the path strings:
\* "final_results_..." < "phase_1_...", then by run id
PathRank(n) == (IF n.kind = "phase_1" THEN NumRunIds ELSE 0) + n.run_id

\* json.dump(obj, f) that ran to its end, and what open(file, 'w') followed
\* by a json.dump that raised leaves in the file
json_dump(obj) == [parses |-> TRUE, obj |-> obj]
Truncated == [parses |-> FALSE]

\* json.load(f): the object, or JSONDecodeError
json_load(text) ==
    IF text.parses THEN [raised |-> FALSE, obj |-> text.obj] ELSE [raised |-> TRUE]

\* open(file, 'w') and the write, at write time t
write_file(F, n, text, t) ==
    [m \in DOMAIN F \cup {n} |-> IF m = n THEN [text |-> text, mtime |-> t] ELSE F[m]]

\* a checkpoint dict whose feeds_count is not the length of its feeds
checkpoint_data_nocount(feeds, r, t) ==
    [checkpoint_type |-> "phase_1_complete", run_id |-> r, timestamp |-> t,
     feeds_count |-> 0, feeds |-> feeds]

\* checkpoint_data of save_phase_1_checkpoint
checkpoint_data(feeds, r, t) ==
    [checkpoint_type |-> "phase_1_complete", run_id |-> r, timestamp |-> t,
     feeds_count |-> Len(feeds), feeds |-> feeds]

\* a save that leaves the directory as it was
save_phase_1_checkpoint_skipped(F, feeds, r, t, dumped) == F

\* CheckpointManager.save_phase_1_checkpoint at time t; dumped tells whether
\* json.dump ran to its end (the call raises when it did not)
save_phase_1_checkpoint(F, feeds, r, t, dumped) ==
    write_file(F, Phase1File(r),
               IF dumped THEN json_dump(checkpoint_data(feeds, r, t)) ELSE Truncated, t)

\* a load that finds nothing
load_phase_1_checkpoint_none(F, r) == None

\* CheckpointManager.load_phase_1_checkpoint: the data, or None when the
\* file does not exist or json.load raises
load_phase_1_checkpoint(F, r) ==
    IF Phase1File(r) \in DOMAIN F
    THEN IF json_load(F[Phase1File(r)].text).raised THEN None
         ELSE json_load(F[Phase1File(r)].text).obj
    ELSE None

\* CheckpointManager.save_final_results_checkpoint
save_final_results_checkpoint(F, res, r, t, dumped) ==
    write_file(F, FinalFile(r), IF dumped THEN json_dump(res) ELSE Truncated, t)

\* sorted(checkpoints, reverse=True) over a set of paths
RECURSIVE sorted_reverse(_)
sorted_reverse(S) ==
    IF S = {} THEN <<>>
    ELSE LET top == CHOOSE n \in S : \A m \in S : PathRank(m) <= PathRank(n)
         IN  <<top>> \o sorted_reverse(S \ {top})

\* CheckpointManager.list_available_checkpoints
list_available_checkpoints(F) == sorted_reverse(DOMAIN F)

\* checkpoints[keep_count:]
to_remove(cps, keep_count) ==
    IF Len(cps) > keep_count
    THEN {cps[i] : i \in (keep_count + 1)..Len(cps)}
    ELSE {}

\* CheckpointManager.cleanup_old_checkpoints; os.remove raises for the
\* paths in failing, which the method logs and passes over
cleanup_old_checkpoints(F, keep_count, failing) ==
    [n \in DOMAIN F \ (to_remove(list_available_checkpoints(F), keep_count) \ failing) |-> F[n]]

\* "if checkpoint": None is false, a checkpoint dict (never empty) is true
Truthy(c) == c # None

NoKOp == [op |-> "none"]

\* a CheckpointManager on an empty directory and a main() not yet started
IdleCheckpoints ==
    /\ files = EmptyDict
    /\ wclock = 0
    /\ kops = 0
    /\ klast = NoKOp
    /\ saved_feeds = [r \in RunIds |-> None]
    /\ mpc = "idle"
    /\ mruns = 0
    /\ force_phase1 = FALSE
    /\ checkpoint = None
    /\ phase_1_feeds = <<>>
    /\ discover_ran = FALSE
    /\ moutcome = "none"

\* a URL generator that has not been used
IdleGenerator ==
    /\ current_feeds = <<>>
    /\ learned_patterns = EmptyDict
    /\ candidates = <<>>
    /\ rag_known = {}
    /\ gen_last = NoKOp
    /\ gen_llm = NoKOp

\* a search agent that has not been asked anything, on empty tables
IdleSearch ==
    /\ rss_table = <<>>
    /\ diksha_table = <<>>
    /\ qlast = NoKOp

\* validators as main() builds them (MIN_QUALITY_SCORE = 60), store in place
FreshValidators ==
    /\ min_quality_score = [v \in Validators |-> DefaultMinQuality]
    /\ validation_cache = [v \in Validators |-> EmptyDict]
    /\ store_ok = [v \in Validators |-> TRUE]
    /\ store_writable = TRUE
    /\ calls = 0
    /\ rows = <<>>
    /\ saves = 0
    /\ last = NoCall
    /\ fetched = <<>>
    /\ ever_valid = {}

\* ---------------------------------------------------------- LearningAgent
\* a quotient a / b, kept as the pair of its terms
Ratio(a, b) == [num |-> a, den |-> b]

\* the iteration_record of analyze_iteration, cv being candidates_validated
\* after the "if validated_reports is not None"
iteration_record(iteration_num, cg, cv, new_feeds_found, validated_reports, rejected_reports) ==
    [iteration |-> iteration_num,
     candidates_generated |-> cg,
     candidates_validated |-> cv,
     new_feeds_found |-> new_feeds_found,
     success_rate |-> Ratio(new_feeds_found, Max(1, cv)),
     generation_efficiency |-> Ratio(new_feeds_found, Max(1, cg)),
     validated_reports |-> validated_reports,
     rejected_reports |-> rejected_reports]

\* LearningAgent.analyze_iteration up to self.iteration_history.append: the
\* history after the call. has_reports tells validated_reports is not None.
analyze_iteration(H, iteration_num, cg, cv, new_feeds_found, has_reports, validated_reports, rejected_reports) ==
    Append(H, iteration_record(iteration_num, cg,
                               IF has_reports THEN Len(validated_reports) ELSE cv,
                               new_feeds_found,
                               IF has_reports THEN validated_reports ELSE <<>>,
                               rejected_reports))

\* the four answers of get_convergence_assessment: converging, and the
\* confidence in hundredths
Assessment(converging, confidence) == [converging |-> converging, confidence |-> confidence]

RECURSIVE SumNew(_)
SumNew(recent) ==
    IF recent = <<>> THEN 0 ELSE Head(recent).new_feeds_found + SumNew(Tail(recent))

\* get_convergence_assessment with its second threshold at an average of 2
get_convergence_assessment_two(H, recent_iterations) ==
    IF Len(H) < recent_iterations THEN Assessment(FALSE, 0)
    ELSE LET recent == SubSeq(H, Len(H) - recent_iterations + 1, Len(H))
         IN  IF \A i \in 1..Len(recent) : recent[i].new_feeds_found = 0
             THEN Assessment(TRUE, 95)
             ELSE IF SumNew(recent) < Len(recent) THEN Assessment(TRUE, 80)
             ELSE IF SumNew(recent) < 2 * Len(recent) THEN Assessment(TRUE, 60)
             ELSE Assessment(FALSE, 70)

\* LearningAgent.get_convergence_assessment(recent_iterations), for
\* recent_iterations >= 1; avg_recent < k is sum(recent_feeds) < k * len
get_convergence_assessment(H, recent_iterations) ==
    IF Len(H) < recent_iterations THEN Assessment(FALSE, 0)
    ELSE LET recent == SubSeq(H, Len(H) - recent_iterations + 1, Len(H))
         IN  IF \A i \in 1..Len(recent) : recent[i].new_feeds_found = 0
             THEN Assessment(TRUE, 95)
             ELSE IF SumNew(recent) < Len(recent) THEN Assessment(TRUE, 80)
             ELSE IF SumNew(recent) < 3 * Len(recent) THEN Assessment(TRUE, 60)
             ELSE Assessment(FALSE, 70)

\* the coordinator's "if self.rag_agent.learned_patterns": {**structure,
\* **patterns} has the keys of the structure summary whenever the feeds
\* learnt from are not empty
learned_patterns_nonempty(feeds) == feeds # <<>>

\* a loop that records only the iterations that found something
coordinator_analyze_found(H, it, r) ==
    IF r.result.new_feeds_found = 0 THEN H
    ELSE analyze_iteration(H, it, r.result.candidates_generated, Len(r.validated),
                           r.result.new_feeds_found, TRUE, r.validated, r.rejected)

\* the loop's call of analyze_iteration on the result r of run_iteration
coordinator_analyze(H, it, r) ==
    analyze_iteration(H, it, r.result.candidates_generated, Len(r.validated),
                      r.result.new_feeds_found, TRUE, r.validated, r.rejected)

\* a coordinator and a RAG agent right after construction
FreshAgents ==
    /\ pc = "phase1"
    /\ all_discovered_feeds = <<>>
    /\ validated_feeds = <<>>
    /\ iteration = 1
    /\ run_calls = 0
    /\ results = NoResults
    /\ light_cache = EmptyDict
    /\ discovered_feeds = <<>>
    /\ iteration_count = 0
    /\ stats_iterations = <<>>
    /\ iteration_history = <<>>
    /\ llast = NoKOp

\* a run of the discovery workflow
Init ==
    /\ FreshValidators
    /\ FreshAgents
    /\ driver \in {"coordinator", "main"}
    /\ max_iterations \in 1..MaxIterations
    /\ ai_validator \in BOOLEAN
    /\ agent = "validator"
    /\ NoGeminiCalls
    /\ IdleCheckpoints
    /\ IdleGenerator
    /\ IdleSearch

\* a validator and its store used on their own, before any run
InitStandalone ==
    /\ min_quality_score \in {m \in [Validators -> MinQualityChoices] :
                                 m["rag"] = DefaultMinQuality}
    /\ validation_cache = [v \in Validators |-> EmptyDict]
    /\ store_ok \in {m \in [Validators -> BOOLEAN] : m["rag"]}
    /\ store_writable \in BOOLEAN
    /\ calls = 0
    /\ rows = <<>>
    /\ saves = 0
    /\ last = NoCall
    /\ fetched = <<>>
    /\ ever_valid = {}
    /\ FreshAgents
    /\ driver = "coordinator"
    /\ max_iterations = 1
    /\ ai_validator = TRUE
    /\ agent = "validator"
    /\ NoGeminiCalls
    /\ IdleCheckpoints
    /\ IdleGenerator
    /\ IdleSearch

\* what the validation of the Phase 1 feeds leaves behind, validation being
\* what validate_batch returned
Phase1Validated(validation) ==
    /\ validated_feeds' = validation.validated_feeds
    /\ validation_cache' = [validation_cache EXCEPT !["coordinator"] = validation.cache]
    /\ rows' = validation.rows
    /\ saves' = saves + validation.saved
    /\ ever_valid' = ever_valid \cup UrlsOf(validation.validated_feeds)

\* CoordinatorAgent._phase_1_initial_discovery
Phase1Coordinator(feeds, ws) ==
    /\ driver = "coordinator" /\ pc = "phase1"
    /\ IF feeds = <<>>
       THEN UNCHANGED <<all_discovered_feeds, validated_feeds, validation_cache, rows, saves,
                        ever_valid>>
       ELSE /\ Phase1Validated(validate_batch(validation_cache["coordinator"],
                                               store_ok["coordinator"],
                                               min_quality_score["coordinator"], rows, feeds,
                                               "phase1", ws))
            /\ all_discovered_feeds' = all_discovered_feeds \o validated_feeds'
    /\ pc' = "phase2"
    /\ UNCHANGED <<ovars, tvars, min_quality_score, store_ok, store_writable, calls, last, fetched, driver, max_iterations,
                   iteration, run_calls, results, rvars>>

\* urljoin(BASE_URL, u) for a url that does not start with http
Normalize(u) == IF u # EmptyUrl /\ ~StartsWithHttp(u) THEN -u ELSE u

\* main(): Phase 1 (discovery or checkpoint), normalisation and validation of
\* the Phase 1 feeds (main.py lines 223-294)
Phase1Main(feeds, from_checkpoint, ws) ==
    /\ driver = "main" /\ pc = "phase1"
    /\ IF ~from_checkpoint /\ feeds = <<>>
       THEN /\ pc' = "aborted"
            /\ UNCHANGED <<all_discovered_feeds, validated_feeds, validation_cache, rows,
                           saves, ever_valid>>
       ELSE LET normalized_feeds == [i \in 1..Len(feeds) |-> [url |-> Normalize(feeds[i].url)]]
            IN  /\ all_discovered_feeds' = normalized_feeds
                /\ Phase1Validated(validate_batch(validation_cache["coordinator"],
                                                   store_ok["coordinator"],
                                                   min_quality_score["coordinator"], rows,
                                                   normalized_feeds, "legit", ws))
                /\ pc' = "phase2"
    /\ UNCHANGED <<ovars, tvars, min_quality_score, store_ok, store_writable, calls, last, fetched, driver, max_iterations,
                   iteration, run_calls, results, rvars>>

\* the discovery of Phase 1 raises: both drivers re-raise
Phase1Fails ==
    /\ pc = "phase1"
    /\ pc' = "failed"
    /\ UNCHANGED <<ovars, tvars, vvars, driver, max_iterations, all_discovered_feeds, validated_feeds,
                   iteration, run_calls, results, rvars, ever_valid>>

\* a loop bound that lets the loop variable reach max_iterations
LoopHasNextInclusive(i, maxit) == i + 1 <= maxit

\* range(1, self.max_iterations): is there a next value after i
LoopHasNext(i, maxit) == i + 1 < maxit

AfterContinue(i, maxit) == IF LoopHasNext(i, maxit) THEN "loop" ELSE "phase2_end"

\* _phase_2_rag_iterations up to the for statement
Phase2Enter ==
    /\ pc = "phase2"
    /\ pc' = IF validated_feeds = <<>> THEN "final" ELSE AfterContinue(0, max_iterations)
    /\ iteration' = 1
    /\ UNCHANGED <<ovars, tvars, vvars, driver, max_iterations, all_discovered_feeds, validated_feeds,
                   run_calls, results, rvars, ever_valid>>

\* one pass of the for loop in which run_iteration raises after it has
\* incremented iteration_count (learn_patterns or generate_candidates raised)
LoopStepRaises ==
    /\ pc = "loop"
    /\ run_calls' = run_calls + 1
    /\ iteration_count' = iteration_count + 1
    /\ iteration' = iteration + 1
    /\ pc' = AfterContinue(iteration, max_iterations)
    /\ UNCHANGED <<ovars, tvars, vvars, driver, max_iterations, all_discovered_feeds, validated_feeds,
                   results, ai_validator, light_cache, discovered_feeds, stats_iterations,
                   ever_valid>>

\* what a run_iteration that returned r leaves behind in the RAG agent and
\* in its validator
IterationRan(r) ==
    /\ iteration_count' = iteration_count + 1
    /\ validation_cache' = [validation_cache EXCEPT !["rag"] = r.cache]
    /\ light_cache' = r.light
    /\ rows' = r.rows
    /\ saves' = saves + r.saved
    /\ discovered_feeds' = r.discovered_feeds
    /\ stats_iterations' = Append(stats_iterations, r.result)
    /\ ever_valid' = ever_valid \cup UrlsOf(r.validated)

\* one pass of the for loop in which run_iteration returns; analyze_ok tells
\* whether LearningAgent.analyze_iteration returns or raises
LoopStep(cands, ws, analyze_ok) ==
    /\ pc = "loop"
    /\ IterationRan(run_iteration(cands, ws))
    /\ iteration_history' = IF learned_patterns_nonempty(validated_feeds)
                            THEN coordinator_analyze(iteration_history, iteration,
                                                     run_iteration(cands, ws))
                            ELSE iteration_history
    /\ run_calls' = run_calls + 1
    /\ IF ~analyze_ok
       THEN /\ iteration' = iteration + 1
            /\ pc' = AfterContinue(iteration, max_iterations)
       ELSE IF \/ should_stop_iteration(iteration_count', stats_iterations')
               \/ stats_iterations'[Len(stats_iterations')].new_feeds_found = 0
       THEN /\ iteration' = iteration
            /\ pc' = "phase2_end"
       ELSE /\ iteration' = iteration + 1
            /\ pc' = AfterContinue(iteration, max_iterations)
    /\ UNCHANGED <<kvars, gvars, qvars, llast, tvars, min_quality_score, store_ok, store_writable, calls,
                   last, fetched, driver, max_iterations, all_discovered_feeds, validated_feeds,
                   results, ai_validator>>

\* self.all_discovered_feeds = self.rag_agent.discovered_feeds
Phase2End ==
    /\ pc = "phase2_end"
    /\ all_discovered_feeds' = discovered_feeds
    /\ pc' = "final"
    /\ UNCHANGED <<ovars, tvars, vvars, driver, max_iterations, validated_feeds, iteration, run_calls,
                   results, rvars, ever_valid>>

\* results = self._phase_final_analysis()
FinalAnalysis ==
    /\ pc = "final"
    /\ results' = _phase_final_analysis(all_discovered_feeds, validated_feeds)
    /\ pc' = "done"
    /\ UNCHANGED <<ovars, tvars, vvars, driver, max_iterations, all_discovered_feeds, validated_feeds,
                   iteration, run_calls, rvars, ever_valid>>

\* coordinator.save_results(...) after the run: the analysis is computed again
SaveResults ==
    /\ pc = "done"
    /\ results' = _phase_final_analysis(all_discovered_feeds, validated_feeds)
    /\ pc' = "saved"
    /\ UNCHANGED <<ovars, tvars, vvars, driver, max_iterations, all_discovered_feeds, validated_feeds,
                   iteration, run_calls, rvars, ever_valid>>

Next ==
    \/ \E feeds \in FeedLists : \E ws \in [1..Len(urls_to_validate(feeds)) -> RunWorlds] :
            Phase1Coordinator(feeds, ws)
    \/ \E feeds \in FeedLists, ck \in BOOLEAN :
            \E ws \in [1..Len(urls_to_validate(feeds)) -> RunWorlds] :
                Phase1Main(feeds, ck, ws)
    \/ Phase1Fails
    \/ Phase2Enter
    \/ LoopStepRaises
    \/ \E cands \in CandidateLists, ok \in BOOLEAN :
            \E ws \in [1..Len(cands) -> RunWorlds] : LoopStep(cands, ws, ok)
    \/ Phase2End
    \/ FinalAnalysis
    \/ SaveResults

Spec == Init /\ [][Next]_vars

SpecValidator == InitStandalone /\ [][NextValidator]_vars

\* ------------------------------------------------- Gemini rate limiting
\* AIValidatorAgent, GeminiPatternLearner and UltimateAIScraper each keep
\* their own api_delay / last_api_call and run the same retry loop around
\* model.generate_content.
Agents == {"validator", "learner", "scraper"}

\* time the steps can take, in seconds
CallTimes == {0, 5, 70}
IdleTimes == {30, 60}
Oversleep == {0, 1}

\* what a generate_content call can end in
CallEnds == {"ok", "bad_json", "quota", "error"}

\* a slot wait that sleeps what is left of max_wait instead of giving up
_wait_for_api_slot_capped(t, lastc, max_wait) ==
    LET elapsed == t - lastc
    IN  IF elapsed >= ApiDelay THEN [ret |-> TRUE, sleep |-> 0, wait |-> 0]
        ELSE [ret |-> TRUE, sleep |-> Min(ApiDelay - elapsed, max_wait),
              wait |-> ApiDelay - elapsed]

\* _wait_for_api_slot(max_wait) entered at time t with last_api_call = lastc:
\* the flag it returns and the time it hands to time.sleep
_wait_for_api_slot(t, lastc, max_wait) ==
    LET elapsed == t - lastc
    IN  IF elapsed >= ApiDelay THEN [ret |-> TRUE, sleep |-> 0, wait |-> 0]
        ELSE LET wait == ApiDelay - elapsed
             IN  IF wait > max_wait THEN [ret |-> FALSE, sleep |-> 0, wait |-> wait]
                 ELSE [ret |-> TRUE, sleep |-> wait, wait |-> wait]

\* a retry that does not sleep before it continues
backoff_sleep_none(att, remaining) == 0

\* min(backoff * (2 ** (attempt - 1)), max(1, remaining_time))
backoff_sleep(att, remaining) == Min(Backoff * (2 ^ (att - 1)), Max(1, remaining))

InitRate ==
    /\ FreshValidators
    /\ FreshAgents
    /\ driver = "coordinator"
    /\ max_iterations = 1
    /\ ai_validator = TRUE
    /\ agent \in Agents
    /\ NoGeminiCalls
    /\ IdleCheckpoints
    /\ IdleGenerator
    /\ IdleSearch

\* time passes between two invocations
IdleTime(d) ==
    /\ gpc = "idle"
    /\ now + d <= MaxTime
    /\ now' = now + d
    /\ UNCHANGED <<ovars, vvars, cvars, rvars, ever_valid, agent, last_api_call, gpc, start_time,
                   attempt, call_start, slot, outcome>>

\* _assess_with_gemini / learn_patterns / _stage2_ai_deep_analysis is entered
StartInvocation ==
    /\ gpc = "idle"
    /\ gpc' = "top"
    /\ start_time' = now
    /\ attempt' = 0
    /\ outcome' = "running"
    /\ slot' = NoSlot
    /\ UNCHANGED <<ovars, vvars, cvars, rvars, ever_valid, agent, now, last_api_call, call_start>>

\* top of the while True loop down to the generate_content call
LoopTop(over) ==
    /\ gpc = "top"
    /\ attempt' = attempt + 1
    /\ LET remaining_time == MaxTotalWait - (now - start_time)
           s == _wait_for_api_slot(now, last_api_call, remaining_time)
           slept == IF s.sleep > 0 THEN s.sleep + over ELSE 0
       IN  IF remaining_time <= 0
           THEN /\ gpc' = "idle" /\ outcome' = "fallback" /\ slot' = NoSlot
                /\ UNCHANGED <<now, call_start>>
           ELSE /\ slot' = [asked |-> TRUE, ret |-> s.ret, wait |-> s.wait,
                            max_wait |-> remaining_time, slept |-> slept]
                /\ IF s.ret
                   THEN /\ now + slept <= MaxTime
                        /\ now' = now + slept
                        /\ call_start' = now + slept
                        /\ gpc' = "calling"
                        /\ UNCHANGED outcome
                   ELSE /\ gpc' = "idle" /\ outcome' = "fallback"
                        /\ UNCHANGED <<now, call_start>>
    /\ UNCHANGED <<ovars, vvars, cvars, rvars, ever_valid, agent, last_api_call, start_time>>

\* the response is recorded, then a retry is prepared: the budget is read
\* again and the loop sleeps its backoff before it continues
RetryAfter(t, over) ==
    LET remaining_time == MaxTotalWait - (t - start_time)
    IN  IF remaining_time <= 0
        THEN /\ now' = t /\ gpc' = "idle" /\ outcome' = "fallback"
        ELSE /\ t + backoff_sleep(attempt, remaining_time) + over <= MaxTime
             /\ now' = t + backoff_sleep(attempt, remaining_time) + over
             /\ gpc' = "top" /\ UNCHANGED outcome

\* generate_content returns or raises after d seconds
CallReturns(d, end, over) ==
    /\ gpc = "calling"
    /\ now + d <= MaxTime
    /\ CASE end = "ok" ->
                /\ last_api_call' = now + d
                /\ now' = now + d /\ gpc' = "idle" /\ outcome' = "result"
         [] end = "bad_json" ->
                /\ last_api_call' = now + d
                /\ IF agent = "validator"
                   THEN RetryAfter(now + d, over)
                   ELSE now' = now + d /\ gpc' = "idle" /\ outcome' = "empty"
         [] end = "quota" ->
                /\ last_api_call' = now + d
                /\ RetryAfter(now + d, over)
         [] end = "error" ->
                /\ UNCHANGED last_api_call
                /\ now' = now + d /\ gpc' = "idle"
                /\ outcome' = IF agent = "validator" THEN "raise" ELSE "empty"
    /\ UNCHANGED <<ovars, vvars, cvars, rvars, ever_valid, agent, start_time, attempt, call_start,
                   slot>>

NextRate ==
    \/ \E d \in IdleTimes : IdleTime(d)
    \/ StartInvocation
    \/ \E over \in Oversleep : LoopTop(over)
    \/ \E d \in CallTimes, end \in CallEnds, over \in Oversleep : CallReturns(d, end, over)

SpecRate == InitRate /\ [][NextRate]_vars

\* ------------------------------------- CheckpointManager used on its own
\* what the checkpoint operations leave alone
notk == <<vvars, cvars, rvars, ever_valid, tvars, gvars, lvars, qvars>>
mainvars == <<mpc, mruns, force_phase1, checkpoint, phase_1_feeds, discover_ran, moutcome>>

\* the agents at rest, as the checkpoint specifications leave them
AgentsAtRest ==
    /\ FreshValidators
    /\ FreshAgents
    /\ driver = "main"
    /\ max_iterations = 1
    /\ ai_validator = TRUE
    /\ agent = "validator"
    /\ NoGeminiCalls

InitCheckpoint == AgentsAtRest /\ IdleCheckpoints /\ IdleGenerator /\ IdleSearch

\* feeds handed to save_phase_1_checkpoint
SavedFeedLists == {f \in FeedLists : \A i \in 1..Len(f) : f[i].url > 0}
KeepCounts == 0..2

SavePhase1Call(feeds, r, dumped) ==
    /\ kops < MaxOps
    /\ kops' = kops + 1
    /\ wclock' = wclock + 1
    /\ files' = save_phase_1_checkpoint(files, feeds, r, wclock + 1, dumped)
    /\ saved_feeds' = [saved_feeds EXCEPT ![r] = IF dumped THEN [feeds |-> feeds] ELSE None]
    /\ klast' = [op |-> "save_phase_1", run_id |-> r, raised |-> ~dumped]
    /\ UNCHANGED <<notk, mainvars>>

LoadPhase1Call(r) ==
    /\ kops < MaxOps
    /\ kops' = kops + 1
    /\ klast' = [op |-> "load_phase_1", run_id |-> r, raised |-> FALSE,
                 ret |-> load_phase_1_checkpoint(files, r)]
    /\ UNCHANGED <<notk, mainvars, files, wclock, saved_feeds>>

SaveFinalCall(r, dumped) ==
    /\ kops < MaxOps
    /\ kops' = kops + 1
    /\ wclock' = wclock + 1
    /\ files' = save_final_results_checkpoint(files, "results", r, wclock + 1, dumped)
    /\ klast' = [op |-> "save_final_results", run_id |-> r, raised |-> ~dumped]
    /\ UNCHANGED <<notk, mainvars, saved_feeds>>

CleanupCall(keep_count, failing) ==
    /\ kops < MaxOps
    /\ kops' = kops + 1
    /\ files' = cleanup_old_checkpoints(files, keep_count, failing)
    /\ klast' = [op |-> "cleanup", keep_count |-> keep_count, raised |-> FALSE,
                 before |-> files,
                 failed |-> failing \cap to_remove(list_available_checkpoints(files),
                                                   keep_count)]
    /\ UNCHANGED <<notk, mainvars, wclock, saved_feeds>>

NextCheckpoint ==
    \/ \E feeds \in SavedFeedLists, r \in RunIds, dumped \in BOOLEAN :
            SavePhase1Call(feeds, r, dumped)
    \/ \E r \in RunIds : LoadPhase1Call(r)
    \/ \E r \in RunIds, dumped \in BOOLEAN : SaveFinalCall(r, dumped)
    \/ \E keep_count \in KeepCounts, failing \in {{}} \cup {{n} : n \in DOMAIN files} :
            CleanupCall(keep_count, failing)

SpecCheckpoint == InitCheckpoint /\ [][NextCheckpoint]_vars

\* --------------------------------------------------- main(), run after run
\* keep_count of the cleanup main() makes
KeepCount == 5

InitMain == AgentsAtRest /\ IdleCheckpoints /\ IdleGenerator /\ IdleSearch

\* main() from its entry to the load of the Phase 1 checkpoint
MainStart(force) ==
    /\ mpc = "idle" /\ mruns < MaxRuns
    /\ mruns' = mruns + 1
    /\ force_phase1' = force
    /\ checkpoint' = IF ~force THEN load_phase_1_checkpoint(files, RUN_ID) ELSE None
    /\ phase_1_feeds' = <<>>
    /\ discover_ran' = FALSE
    /\ mpc' = "phase1"
    /\ UNCHANGED <<notk, files, wclock, kops, klast, saved_feeds, moutcome>>

\* "if checkpoint and not force_phase1": resume from the checkpoint
MainResume ==
    /\ mpc = "phase1" /\ Truthy(checkpoint) /\ ~force_phase1
    /\ phase_1_feeds' = checkpoint.feeds
    /\ mpc' = "phase2"
    /\ UNCHANGED <<notk, files, wclock, kops, klast, saved_feeds, mruns, force_phase1,
                   checkpoint, discover_ran, moutcome>>

\* else: discover returns feeds; none ends the run, otherwise the checkpoint
\* is saved (main() fails when the save raises)
MainDiscover(feeds, dumped) ==
    /\ mpc = "phase1" /\ ~(Truthy(checkpoint) /\ ~force_phase1)
    /\ discover_ran' = TRUE
    /\ phase_1_feeds' = feeds
    /\ IF feeds = <<>>
       THEN /\ mpc' = "idle" /\ moutcome' = "no_feeds"
            /\ UNCHANGED <<files, wclock, saved_feeds>>
       ELSE /\ files' = save_phase_1_checkpoint(files, feeds, RUN_ID, wclock + 1, dumped)
            /\ wclock' = wclock + 1
            /\ saved_feeds' = [saved_feeds EXCEPT
                                  ![RUN_ID] = IF dumped THEN [feeds |-> feeds] ELSE None]
            /\ IF dumped
               THEN mpc' = "phase2" /\ UNCHANGED moutcome
               ELSE mpc' = "idle" /\ moutcome' = "failed_phase1"
    /\ UNCHANGED <<notk, kops, klast, mruns, force_phase1, checkpoint>>

\* else: discover raises
MainDiscoverRaises ==
    /\ mpc = "phase1" /\ ~(Truthy(checkpoint) /\ ~force_phase1)
    /\ discover_ran' = TRUE
    /\ mpc' = "idle" /\ moutcome' = "failed_phase1"
    /\ UNCHANGED <<notk, files, wclock, kops, klast, saved_feeds, mruns, force_phase1,
                   checkpoint, phase_1_feeds>>

\* normalisation, validation of the Phase 1 feeds, the RAG iterations and the
\* final analysis: they return, or one of them raises
MainPhase2(raises) ==
    /\ mpc = "phase2"
    /\ IF raises THEN mpc' = "idle" /\ moutcome' = "failed_later"
       ELSE mpc' = "final" /\ UNCHANGED moutcome
    /\ UNCHANGED <<notk, files, wclock, kops, klast, saved_feeds, mruns, force_phase1,
                   checkpoint, phase_1_feeds, discover_ran>>

\* checkpoint_mgr.save_final_results_checkpoint(results, RUN_ID)
MainSaveFinal(dumped) ==
    /\ mpc = "final"
    /\ files' = save_final_results_checkpoint(files, "results", RUN_ID, wclock + 1, dumped)
    /\ wclock' = wclock + 1
    /\ IF dumped THEN mpc' = "save_results" /\ UNCHANGED moutcome
       ELSE mpc' = "idle" /\ moutcome' = "failed_later"
    /\ UNCHANGED <<notk, kops, klast, saved_feeds, mruns, force_phase1, checkpoint,
                   phase_1_feeds, discover_ran>>

\* coordinator.save_results raises
MainSaveResultsRaises ==
    /\ mpc = "save_results"
    /\ mpc' = "idle" /\ moutcome' = "failed_later"
    /\ UNCHANGED <<notk, files, wclock, kops, klast, saved_feeds, mruns, force_phase1,
                   checkpoint, phase_1_feeds, discover_ran>>

\* coordinator.save_results returns; checkpoint_mgr.cleanup_old_checkpoints(keep_count=5)
MainCleanup(failing) ==
    /\ mpc = "save_results"
    /\ files' = cleanup_old_checkpoints(files, KeepCount, failing)
    /\ mpc' = "idle" /\ moutcome' = "done"
    /\ UNCHANGED <<notk, wclock, kops, klast, saved_feeds, mruns, force_phase1, checkpoint,
                   phase_1_feeds, discover_ran>>

NextMain ==
    \/ \E force \in BOOLEAN : MainStart(force)
    \/ MainResume
    \/ \E feeds \in FeedLists, dumped \in BOOLEAN : MainDiscover(feeds, dumped)
    \/ MainDiscoverRaises
    \/ \E raises \in BOOLEAN : MainPhase2(raises)
    \/ \E dumped \in BOOLEAN : MainSaveFinal(dumped)
    \/ MainSaveResultsRaises
    \/ \E failing \in {{}} \cup {{n} : n \in DOMAIN files} : MainCleanup(failing)

SpecMain == InitMain /\ [][NextMain]_vars

\* ------------------------------------- URL structure and URL generation
\* A url is the string base + "?" + query (mark tells whether the "?" is
\* there); its query is the list of (name, value) pairs that urlencode
\* writes and parse_qsl reads.
BaseUrl == "RssMain.aspx"
ParamValues == <<"1", "2">>
Pair(k, v) == <<k, v>>
Url(base, mark, query) == [base |-> base, mark |-> mark, query |-> query]

\* str.lower() on the parameter names in use
Lower(k) ==
    CASE k = "Confidence" -> "confidence"
      [] k = "Reasoning" -> "reasoning"
      [] OTHER -> k

\* the names _strip_internal_params and _extract_url_components look for
InternalParams == {"confidence", "reasoning"}

\* parse_qsl(query): pairs with a blank value are dropped
parse_qsl(query) == SelectSeq(query, LAMBDA kv : kv[2] # "")

\* a strip that compares the names as they are written
_strip_internal_params_cased(url) ==
    LET clean_params == SelectSeq(parse_qsl(url.query), LAMBDA kv : kv[1] \notin InternalParams)
    IN  Url(url.base, clean_params # <<>>, clean_params)

\* IntelligentURLGenerator._strip_internal_params; urlunparse writes no "?"
\* in front of an empty query
_strip_internal_params(url) ==
    LET clean_params ==
            SelectSeq(parse_qsl(url.query), LAMBDA kv : Lower(kv[1]) \notin InternalParams)
    IN  Url(url.base, clean_params # <<>>, clean_params)

\* IntelligentURLGenerator._build_url: f"{base}?{query_string}"
_build_url(params) ==
    Url(BaseUrl, TRUE, SelectSeq(params, LAMBDA kv : kv[2] \notin {"", "None"}))

\* dict.get(key, default)
Get(d, key, default) == IF key \in DOMAIN d THEN d[key] ELSE default

\* {**a, **b}
Merge(a, b) == [k \in DOMAIN a \cup DOMAIN b |-> IF k \in DOMAIN b THEN b[k] ELSE a[k]]

\* IntelligentURLGenerator._generate_from_suggestions
_generate_from_suggestions(patterns) ==
    LET suggestions == Get(patterns, "suggestions", <<>>)
    IN  [i \in 1..Len(suggestions) |->
            _build_url(SelectSeq(suggestions[i],
                                 LAMBDA kv : kv[1] \notin {"confidence", "reasoning"}))]

\* seq[:n]
Take(seq, n) == SubSeq(seq, 1, Min(n, Len(seq)))

\* itertools.product(*lists), in the order it yields
RECURSIVE product(_)
product(lists) ==
    IF lists = <<>> THEN << <<>> >>
    ELSE LET rest == product(Tail(lists))
         IN  [n \in 1..(Len(Head(lists)) * Len(rest)) |->
                 <<Head(lists)[((n - 1) \div Len(rest)) + 1]>> \o rest[((n - 1) % Len(rest)) + 1]]

\* the limits of _generate_systematic
ValuesPerParam == 5
SystematicLimit == 25

\* the urls of the combinations, in the order product yields them
systematic_urls(parameters, combos) ==
    [n \in 1..Len(combos) |->
        _build_url([i \in 1..Len(parameters) |-> Pair(parameters[i].name, combos[n][i])])]

\* the lists handed to itertools.product: observed_values[:5] of each parameter
param_value_lists(parameters) ==
    [i \in 1..Len(parameters) |-> Take(parameters[i].observed_values, ValuesPerParam)]

\* _generate_systematic without the "if len(urls) >= 25: break"
_generate_systematic_unlimited(patterns) ==
    IF Get(patterns, "parameters", <<>>) = <<>> THEN <<>>
    ELSE systematic_urls(Get(patterns, "parameters", <<>>),
                         product(param_value_lists(Get(patterns, "parameters", <<>>))))

\* IntelligentURLGenerator._generate_systematic; parameters is the dict in
\* its key order, as a list of [name, observed_values]
_generate_systematic(patterns) ==
    IF Get(patterns, "parameters", <<>>) = <<>> THEN <<>>
    ELSE Take(systematic_urls(Get(patterns, "parameters", <<>>),
                              product(param_value_lists(Get(patterns, "parameters", <<>>)))),
              SystematicLimit)

\* the cleaned urls, one per generated url, without the "not in seen" test
unique_candidates_all(urls, seen) ==
    [i \in 1..Len(urls) |-> _strip_internal_params(urls[i])]

\* the "Remove duplicates and clean" loop of generate_candidates
RECURSIVE unique_candidates(_, _)
unique_candidates(urls, seen) ==
    IF urls = <<>> THEN <<>>
    ELSE IF _strip_internal_params(Head(urls)) \notin seen
         THEN <<_strip_internal_params(Head(urls))>> \o
              unique_candidates(Tail(urls), seen \cup {_strip_internal_params(Head(urls))})
         ELSE unique_candidates(Tail(urls), seen)

\* the urls a strategy generates, before cleaning
raw_candidates(patterns, strategy) ==
    CASE strategy = "suggested" -> _generate_from_suggestions(patterns)
      [] strategy = "systematic" -> _generate_systematic(patterns)
      [] OTHER -> _generate_from_suggestions(patterns) \o _generate_systematic(patterns)

\* IntelligentURLGenerator.generate_candidates
generate_candidates(patterns, strategy, max_candidates) ==
    IF DOMAIN patterns = {} THEN <<>>
    ELSE Take(unique_candidates(raw_candidates(patterns, strategy), {}), max_candidates)

\* the (name, value) pairs URLStructureAnalyzer._extract_url_components keeps
\* of the feeds' urls, in the order it meets them
RECURSIVE kept_pairs(_)
kept_pairs(feeds) ==
    IF feeds = <<>> THEN <<>>
    ELSE SelectSeq(parse_qsl(Head(feeds).url.query),
                   LAMBDA kv : Lower(kv[1]) \notin InternalParams)
         \o kept_pairs(Tail(feeds))

\* the keys of self.parameters, in insertion order
RECURSIVE param_names(_, _)
param_names(pairs, seen) ==
    IF pairs = <<>> THEN <<>>
    ELSE IF Head(pairs)[1] \in seen THEN param_names(Tail(pairs), seen)
         ELSE <<Head(pairs)[1]>> \o param_names(Tail(pairs), seen \cup {Head(pairs)[1]})

\* list(param_values) of a set of values: one of the orders the set can be
\* iterated in
list_of_set(S, reversed) ==
    SelectSeq(IF reversed THEN <<ParamValues[2], ParamValues[1]>> ELSE ParamValues,
              LAMBDA v : v \in S)

\* URLStructureAnalyzer.analyze: {} without feeds, else the summary dict
analyze(feeds, reversed) ==
    IF feeds = <<>> THEN EmptyDict
    ELSE LET pairs == kept_pairs(feeds)
             names == param_names(pairs, {})
             parameters ==
                 [i \in 1..Len(names) |->
                     [name |-> names[i],
                      observed_values |->
                          list_of_set({pairs[j][2] : j \in {k \in 1..Len(pairs) :
                                                              pairs[k][1] = names[i]}},
                                      reversed)]]
         IN  [k \in {"domain", "parameters"} |->
                 IF k = "domain" THEN "pib.gov.in" ELSE parameters]

\* learn_patterns updating the previous dict instead of building a new one
learn_patterns_update(feeds, llm_patterns, reversed) ==
    Merge(learned_patterns, Merge(analyze(feeds, reversed), llm_patterns))

\* RAGAgent.learn_patterns: {**structure, **patterns}
learn_patterns(feeds, llm_patterns, reversed) == Merge(analyze(feeds, reversed), llm_patterns)

\* urls the Phase 1 feeds can have
FeedQueries ==
    { <<Pair("lang", "1")>>,
      <<Pair("lang", "2"), Pair("reg", "1")>>,
      <<Pair("lang", "1"), Pair("Confidence", "2")>> }
SeedLists ==
    UNION {[1..n -> [url : {Url(BaseUrl, TRUE, q) : q \in FeedQueries}]] : n \in 0..MaxSeeds}

\* what GeminiPatternLearner.learn_patterns can return: {} or a dict with
\* suggestions and, possibly, parameters
SuggestionDicts ==
    { <<Pair("lang", "2"), Pair("confidence", "9"), Pair("reasoning", "why")>>,
      <<Pair("lang", "1"), Pair("Confidence", "9")>>,
      <<Pair("lang", "1")>>,
      <<Pair("lang", "")>> }
SuggestionLists == UNION {[1..n -> SuggestionDicts] : n \in 0..MaxSuggestions}
LlmParameters ==
    { <<[name |-> "Confidence", observed_values |-> <<"1">>],
        [name |-> "lang", observed_values |-> <<"1", "2">>]>> }
LlmPatterns ==
    {EmptyDict}
    \cup {[k \in {"suggestions"} |-> s] : s \in SuggestionLists}
    \cup {[k \in {"suggestions", "parameters"} |-> IF k = "suggestions" THEN s ELSE p] :
            s \in SuggestionLists, p \in LlmParameters}

Strategies == {"suggested", "systematic", "hybrid"}
NumCandidates == {1, 50}

GenOp(op, it, strategy, n) ==
    [op |-> op, iteration |-> it, strategy |-> strategy, max_candidates |-> n]

InitGenerate ==
    /\ AgentsAtRest /\ IdleCheckpoints /\ IdleSearch
    /\ current_feeds \in SeedLists
    /\ learned_patterns = EmptyDict
    /\ candidates = <<>>
    /\ rag_known = {}
    /\ gen_last = GenOp("none", 0, "none", 0)
    /\ gen_llm = NoKOp

notg == <<vvars, cvars, rvars, ever_valid, tvars, kvars, lvars, qvars>>

\* run_iteration: self.learn_patterns(current_feeds)
LearnPatternsCall(llm_patterns, reversed) ==
    /\ gen_last.op \in {"none", "validate"} /\ gen_last.iteration < MaxGenIterations
    /\ learned_patterns' = learn_patterns(current_feeds, llm_patterns, reversed)
    /\ gen_last' = GenOp("learn", gen_last.iteration + 1, "none", 0)
    /\ gen_llm' = [patterns |-> llm_patterns, reversed |-> reversed]
    /\ UNCHANGED <<notg, current_feeds, candidates, rag_known>>

\* run_iteration: candidates = self.generate_candidates(strategy, num_candidates)
GenerateCall(strategy, n) ==
    /\ gen_last.op = "learn"
    /\ candidates' = generate_candidates(learned_patterns, strategy, n)
    /\ gen_last' = GenOp("generate", gen_last.iteration, strategy, n)
    /\ UNCHANGED <<notg, current_feeds, learned_patterns, rag_known, gen_llm>>

\* run_iteration: self.validate_candidates(candidates), all of them valid or
\* none; the valid ones join discovered_feeds
ValidateCall(valid) ==
    /\ gen_last.op = "generate"
    /\ rag_known' = IF valid THEN rag_known \cup {candidates[i] : i \in 1..Len(candidates)}
                    ELSE rag_known
    /\ candidates' = <<>>
    /\ gen_last' = GenOp("validate", gen_last.iteration, gen_last.strategy,
                         gen_last.max_candidates)
    /\ UNCHANGED <<notg, current_feeds, learned_patterns, gen_llm>>

NextGenerate ==
    \/ \E llm_patterns \in LlmPatterns, reversed \in BOOLEAN :
            LearnPatternsCall(llm_patterns, reversed)
    \/ \E strategy \in Strategies, n \in NumCandidates : GenerateCall(strategy, n)
    \/ \E valid \in BOOLEAN : ValidateCall(valid)

SpecGenerate == InitGenerate /\ [][NextGenerate]_vars

\* ------------------------------------------- a LearningAgent used on its own
notl == <<vvars, cvars, rvars, ever_valid, tvars, kvars, gvars, qvars>>

InitLearning == AgentsAtRest /\ IdleCheckpoints /\ IdleGenerator /\ IdleSearch

\* n validation reports
Reports(n) == [i \in 1..n |-> [url |-> i, valid |-> TRUE]]

\* analyze_iteration(...) on the agent: one more record
AnalyzeIterationCall(new_feeds_found, candidates_validated, has_reports, reports) ==
    /\ Len(iteration_history) < MaxHistory
    /\ iteration_history' =
            analyze_iteration(iteration_history, Len(iteration_history) + 1, MaxNew,
                              candidates_validated, new_feeds_found, has_reports,
                              Reports(reports), <<>>)
    /\ llast' = [op |-> "analyze"]
    /\ UNCHANGED notl

\* get_convergence_assessment(recent_iterations) on the agent
AssessCall(recent_iterations) ==
    /\ llast' = [op |-> "assess", recent_iterations |-> recent_iterations,
                 result |-> get_convergence_assessment(iteration_history, recent_iterations)]
    /\ UNCHANGED <<notl, iteration_history>>

NextLearning ==
    \/ \E new_feeds_found \in 0..MaxNew, candidates_validated \in {0, MaxNew},
          has_reports \in BOOLEAN, reports \in 0..MaxNew :
            /\ reports \in {0, new_feeds_found}
            /\ has_reports \/ reports = 0
            /\ AnalyzeIterationCall(new_feeds_found, candidates_validated, has_reports, reports)
    \/ \E recent_iterations \in 1..MaxHistory : AssessCall(recent_iterations)

SpecLearning == InitLearning /\ [][NextLearning]_vars

\* ------------------------------- _generate_systematic on parameter dicts
\* names and values a parameter dict can hold
ParamNames == <<"lang", "reg", "cat", "page", "type">>
Digits == <<"1", "2", "3", "4", "5", "6", "7", "8">>

\* the observed_values a parameter can have: none, one, more than five, and
\* lists holding the values _build_url leaves out
ObservedValues ==
    { <<>>, Take(Digits, 1), Take(Digits, MaxValues), <<"1", "None">>, <<"", "2">> }

\* the patterns the generator can hold: no "parameters" key, or up to
\* MaxParams parameters
ParameterDicts ==
    UNION {{[i \in 1..n |-> [name |-> ParamNames[i], observed_values |-> v[i]]] :
              v \in [1..n -> ObservedValues]} : n \in 0..MaxParams}
SystematicPatterns ==
    {EmptyDict} \cup {[k \in {"parameters"} |-> p] : p \in ParameterDicts}

InitSystematic ==
    /\ AgentsAtRest /\ IdleCheckpoints /\ IdleSearch
    /\ current_feeds = <<>>
    /\ learned_patterns \in SystematicPatterns
    /\ candidates = <<>>
    /\ rag_known = {}
    /\ gen_last = GenOp("none", 0, "none", 0)
    /\ gen_llm = NoKOp

\* self.url_generator._generate_systematic() with self.patterns as learnt
SystematicCall ==
    /\ gen_last.op = "none"
    /\ candidates' = _generate_systematic(learned_patterns)
    /\ gen_last' = GenOp("systematic", 1, "systematic", SystematicLimit)
    /\ UNCHANGED <<notg, current_feeds, learned_patterns, rag_known, gen_llm>>

NextSystematic == SystematicCall

SpecSystematic == InitSystematic /\ [][NextSystematic]_vars

\* ------------------------------------------------------ BharatConnectAgent
\* language codes of the rows and of the user
LanguageCodes == {"hi", "en"}
ContentTypes == {"All", "News", "Education"}

\* what the two SELECTs make of a row: 'news' as content_type and the
\* row's own source, 'education' as content_type and 'DIKSHA' as source
RssRow(language) == [language |-> language, source |-> "pib", content_type |-> "news"]
DikshaRow(language) == [language |-> language, source |-> "DIKSHA", content_type |-> "education"]

\* BigQuerySearchTool.search on tables holding the rows that match the words
\* of the query; languages is a set of codes, or None for all languages; a
\* query that raises adds nothing
search(rss, diksha, limit, languages, content_type, rss_fails, diksha_fails) ==
    LET wanted(row) == languages = None \/ row.language \in languages.codes
        rss_results == IF content_type \in {"All", "News"} /\ ~rss_fails
                       THEN Take(SelectSeq(rss, wanted), limit) ELSE <<>>
        diksha_results == IF content_type \in {"All", "Education"} /\ ~diksha_fails
                          THEN Take(SelectSeq(diksha, wanted), limit) ELSE <<>>
    IN  Take(rss_results \o diksha_results, limit)

\* languages=[code]
Languages(codes) == [codes |-> codes]

\* 'diksha' in source.lower()
SourceIsDiksha(source) == source = "DIKSHA"

\* the result object built from an article
Processed(article, user_language_code) ==
    [original_language_code |-> article.language,
     was_translated |-> article.language # user_language_code,
     source |-> article.source,
     content_type |-> IF SourceIsDiksha(article.source) THEN "education" ELSE "news"]

\* "if not results or len(results) == 0"
no_results(found) == found = <<>>

\* the loop over results[:limit]
processed_results(found, limit, user_language_code) ==
    [i \in 1..Min(limit, Len(found)) |-> Processed(found[i], user_language_code)]

\* the dict returned at the end of process_query
response(processed, cross_language_used) ==
    [error |-> FALSE,
     results_count |-> Len(processed),
     cross_language_used |-> cross_language_used,
     results |-> processed]

\* steps 3 to 5 of process_query, found being what the searches left
respond(found, cross_language_used, limit, user_language_code) ==
    IF no_results(found)
    THEN [error |-> TRUE, results_count |-> 0, cross_language_used |-> FALSE, results |-> <<>>]
    ELSE response(processed_results(found, limit, user_language_code), cross_language_used)

\* a step 2 that searches all languages whatever step 1 found
fallback_always(first, second, limit, user_language_code) ==
    [first |-> first, searches |-> 2, second |-> second,
     response |-> respond(second, TRUE, limit, user_language_code)]

\* process_query from step 2 on, first being what step 1 found and second
\* what the search of step 2 finds if it is made
fallback(first, second, limit, user_language_code) ==
    [first |-> first,
     searches |-> IF no_results(first) THEN 2 ELSE 1,
     second |-> IF no_results(first) THEN second ELSE <<>>,
     response |-> IF no_results(first)
                  THEN respond(second, TRUE, limit, user_language_code)
                  ELSE respond(first, FALSE, limit, user_language_code)]

\* BharatConnectAgent.process_query(query, filters): the searches are made
\* with the default content_type; fails tells which of the four queries raise
process_query(rss, diksha, user_language_code, limit, content_type, fails) ==
    fallback(search(rss, diksha, limit * 2, Languages({user_language_code}), "All",
                    fails[1], fails[2]),
             search(rss, diksha, limit * 3, None, "All", fails[3], fails[4]),
             limit, user_language_code)

Tables(row(_)) == UNION {[1..n -> {row(l) : l \in LanguageCodes}] : n \in 0..MaxRows}

InitQuery ==
    /\ AgentsAtRest /\ IdleCheckpoints /\ IdleGenerator
    /\ rss_table \in Tables(RssRow)
    /\ diksha_table \in Tables(DikshaRow)
    /\ qlast = NoKOp

notq == <<vvars, cvars, rvars, ever_valid, tvars, kvars, gvars, lvars>>

\* agent.process_query(query, filters) on an agent built for a language
ProcessQueryCall(user_language_code, limit, content_type, fails) ==
    /\ qlast' = [op |-> "process_query", user_language_code |-> user_language_code,
                 limit |-> limit, content_type |-> content_type,
                 out |-> process_query(rss_table, diksha_table, user_language_code, limit,
                                       content_type, fails)]
    /\ UNCHANGED <<notq, rss_table, diksha_table>>

NextQuery ==
    \E user_language_code \in LanguageCodes, limit \in 0..MaxLimit,
       content_type \in ContentTypes, fails \in [1..4 -> BOOLEAN] :
        ProcessQueryCall(user_language_code, limit, content_type, fails)

SpecQuery == InitQuery /\ [][NextQuery]_vars

\* ================================================================= claims
NoDupUrls(feeds) == \A i, j \in 1..Len(feeds) : i # j => feeds[i].url # feeds[j].url

\* C1: in every result of _phase_final_analysis, whatever state it is called
\* in, no two entries of discovered_feeds have the same url and
\* summary.total_unique_feeds is the number of entries of discovered_feeds.
C1_FinalFeedsUnique ==
    LET r == _phase_final_analysis(all_discovered_feeds, validated_feeds)
    IN  /\ NoDupUrls(r.discovered_feeds)
        /\ r.total_unique_feeds = Len(r.discovered_feeds)
        /\ NoDupUrls(results.discovered_feeds)
        /\ results.total_unique_feeds = Len(results.discovered_feeds)

\* a finished coordinator run of two iterations whose combined list held the
\* same url more than once
C1_Witness ==
    /\ pc = "done" /\ driver = "coordinator" /\ iteration_count >= 2
    /\ Len(results.discovered_feeds) >= 1
    /\ ~NoDupUrls(all_discovered_feeds \o validated_feeds)

\* C2: every feed of the final results' discovered_feeds was returned as
\* valid by a validator, under both drivers.
C2_FinalFeedsValidated ==
    pc \in {"done", "saved"} =>
        \A i \in 1..Len(results.discovered_feeds) :
            results.discovered_feeds[i].url \in ever_valid

\* C3: the validation store is append-only: a step never changes or removes
\* an existing row and adds at most one, and the number of rows equals the
\* number of save_report calls that succeeded.
C3_StoreAppendOnly ==
    /\ [](Len(rows) = saves)
    /\ [][/\ Len(rows') \in {Len(rows), Len(rows) + 1}
          /\ SubSeq(rows', 1, Len(rows)) = rows
          /\ \A i \in 1..Len(rows') : rows'[i].id = i]_vars

\* a fetch_recent that returned a saved row
C3_Witness ==
    /\ last.op = "fetch_recent" /\ Len(rows) >= 1 /\ Len(fetched) >= 1
    /\ fetched[1] = rows[Len(rows)]

\* C4: with the store available and writable, every validate_feed call not
\* answered from the cache appends exactly one row for its url.
C4_EveryReportPersisted ==
    (/\ last.op = "validate_feed" /\ last.exit # "cached"
     /\ store_ok[last.v] /\ store_writable)
        => /\ last.rows_added = 1
           /\ rows[Len(rows)].url = last.url

\* C5: RAGAgent.discovered_feeds never holds two entries with the same url.
C5_RagFeedsUnique == NoDupUrls(discovered_feeds)

\* C6: should_stop_iteration returns True exactly when at least two
\* iterations have completed and each of the last two found no new feed.
C6_StopOnlyAfterTwoEmpty ==
    should_stop_iteration(iteration_count, stats_iterations) <=>
        /\ Len(stats_iterations) >= 2
        /\ stats_iterations[Len(stats_iterations)].new_feeds_found = 0
        /\ stats_iterations[Len(stats_iterations) - 1].new_feeds_found = 0

\* C7: _phase_2_rag_iterations calls run_iteration at most max_iterations - 1
\* times and always comes to its end: each pass of the loop either leaves it
\* or moves the loop variable one step closer to max_iterations, which it
\* never reaches inside the loop.
C7_BoundedIterations ==
    /\ [](/\ run_calls <= max_iterations - 1
          /\ pc = "loop" => iteration < max_iterations)
    /\ [][pc = "loop" => \/ pc' = "phase2_end"
                         \/ pc' = "loop" /\ iteration' = iteration + 1]_vars

\* the loop ran through all of range(1, max_iterations)
C7_Witness == pc = "final" /\ run_calls = max_iterations - 1 /\ run_calls >= 2

\* the score _assess_with_gemini hands back reaches the threshold
ScoreReaches(w, minq) ==
    \/ w.llm = "score" /\ w.score >= minq
    \/ w.llm = "fallback" /\ FallbackScore >= minq

\* C8: validate_feed returns valid iff the url starts with http, the fetch
\* returned a status below 400, the content looks like a feed, the score is
\* at least min_quality_score and the report has no errors; the flag it
\* returns equals report["valid"].
C8_ValidIff ==
    last.op = "validate_feed" =>
        /\ last.valid = last.report.valid
        /\ last.valid => /\ Len(last.report.errors) = 0
                         /\ last.report.score_kind = "int"
                         /\ last.report.score >= min_quality_score[last.v]
                         /\ last.report.http_status < 400
                         /\ StartsWithHttp(last.report.url)
        /\ last.exit # "cached" =>
              (last.valid <=> /\ StartsWithHttp(last.url)
                              /\ last.world.fetch = "response"
                              /\ last.world.status < 400
                              /\ last.world.isfeed
                              /\ ScoreReaches(last.world, min_quality_score[last.v])
                              /\ Len(last.report.errors) = 0)

\* a feed accepted with a score exactly at the threshold
C8_Witness ==
    /\ last.op = "validate_feed" /\ last.exit = "scored" /\ last.valid
    /\ last.report.score = min_quality_score[last.v]

\* C9: every report of validate_feed that carries a score carries a number
\* within 0..100.
C9_ScoreInRange ==
    (last.op = "validate_feed" /\ last.report.score_kind # "absent")
        => /\ last.report.score_kind = "int"
           /\ last.report.score \in 0..100

\* C10: between the moment a response or quota error was recorded in
\* last_api_call and the start of the agent's next generate_content call at
\* least api_delay seconds pass; when the wait needed exceeds max_wait,
\* _wait_for_api_slot returns False without sleeping and no call is made.
C10_RateLimited ==
    /\ gpc = "calling" => call_start - last_api_call >= ApiDelay
    /\ call_start > last_api_call => call_start - last_api_call >= ApiDelay
    /\ (slot.asked /\ slot.wait > slot.max_wait) =>
            ~slot.ret /\ slot.slept = 0 /\ gpc = "idle" /\ outcome = "fallback"
    /\ (slot.asked /\ ~slot.ret) => call_start <= last_api_call

\* a call that starts after the agent slept for its slot, an earlier response
\* being on record
C10_Witness ==
    /\ gpc = "calling" /\ last_api_call > 0 /\ slot.asked /\ slot.ret
    /\ slot.slept > 0 /\ slot.wait > 0

\* C11: two consecutive generate_content calls of one agent start at least
\* api_delay seconds apart, whatever the first call ended in.
C11_CallStartsSpaced ==
    [][(gpc = "top" /\ gpc' = "calling" /\ call_start > 0 /\ agent \in {"validator", "learner"})
            => call_start' - call_start >= ApiDelay]_vars

\* C12: the retry loop of an invocation is bounded by its time budget: every
\* generate_content call starts within max_total_wait of the invocation's
\* start (up to the overshoot of time.sleep); a pass of the loop that finds
\* the budget used up, or the next slot further away than what is left of
\* it, makes no call and returns the fallback; and every retry finds the
\* clock advanced, so an invocation makes finitely many calls.
C12_RetryBudget ==
    /\ [](gpc = "calling" =>
            \E over \in Oversleep : call_start - start_time <= MaxTotalWait + over)
    /\ [][(/\ gpc = "top"
           /\ \/ MaxTotalWait - (now - start_time) <= 0
              \/ ApiDelay - (now - last_api_call) > MaxTotalWait - (now - start_time))
             => (gpc' = "idle" /\ outcome' = "fallback" /\ call_start' = call_start)]_vars
    /\ [][(gpc = "calling" /\ gpc' = "top") => now' > now]_vars

\* an invocation that made a call, was told the quota is exhausted and
\* returned the fallback on its second pass
C12_Witness ==
    /\ gpc = "idle" /\ outcome = "fallback" /\ attempt >= 2
    /\ call_start >= start_time /\ start_time > 0

C16_KeepsMostRecent ==
    klast.op = "cleanup" =>
        /\ klast.failed = {} => Cardinality(DOMAIN files) <= klast.keep_count
        /\ \A kept \in DOMAIN files \ klast.failed :
              \A removed \in DOMAIN klast.before \ DOMAIN files :
                  klast.before[kept].mtime > klast.before[removed].mtime

\* the Phase 1 checkpoint of RUN_ID exists and parses
Loadable(F) == Phase1File(RUN_ID) \in DOMAIN F /\ F[Phase1File(RUN_ID)].text.parses

\* C13: main() calls discover exactly when force_phase1 is set or no Phase 1
\* checkpoint of the run id can be loaded; otherwise it goes on to Phase 2
\* with the feeds stored in the checkpoint.
C13_ResumeSkipsPhase1 ==
    [][(mpc = "phase1" /\ mpc' # "phase1") =>
            /\ discover_ran' <=> (force_phase1 \/ ~Loadable(files))
            /\ ~discover_ran' =>
                  /\ mpc' = "phase2"
                  /\ phase_1_feeds' = files[Phase1File(RUN_ID)].text.obj.feeds]_vars

\* a run that followed a complete one and resumed from its checkpoint
C13_Witness ==
    /\ mpc = "phase2" /\ ~discover_ran /\ ~force_phase1 /\ moutcome = "done"
    /\ Len(phase_1_feeds) >= 1

\* C14: when Phase 2 begins after a discovery, the Phase 1 checkpoint holds
\* the discovered feeds (at least one); a step of Phase 2 or later that fails
\* leaves the checkpoint file as it was; and the next unforced run then loads
\* it and goes to Phase 2 without a discovery.
C14_CheckpointSurvivesFailure ==
    /\ []((mpc = "phase2" /\ discover_ran) =>
            /\ Len(phase_1_feeds) >= 1
            /\ Loadable(files)
            /\ files[Phase1File(RUN_ID)].text.obj.feeds = phase_1_feeds)
    /\ [][(mpc # "idle" /\ mpc' = "idle" /\ moutcome' = "failed_later") =>
            /\ Phase1File(RUN_ID) \in DOMAIN files
            /\ Phase1File(RUN_ID) \in DOMAIN files'
            /\ files'[Phase1File(RUN_ID)] = files[Phase1File(RUN_ID)]]_vars
    /\ [][(mpc = "idle" /\ moutcome = "failed_later" /\ mpc' = "phase1" /\ ~force_phase1') =>
            Truthy(checkpoint')]_vars
    /\ [][(mpc = "phase1" /\ moutcome = "failed_later" /\ ~force_phase1 /\ mpc' # "phase1") =>
            (mpc' = "phase2" /\ ~discover_ran')]_vars

\* a run that failed after Phase 1, followed by an unforced run now at Phase 2
C14_Witness ==
    /\ mpc = "phase2" /\ moutcome = "failed_later" /\ ~force_phase1 /\ ~discover_ran
    /\ mruns >= 2

\* the url carries a query parameter named confidence or reasoning, in any
\* letter case
HasInternalParam(url) ==
    \E i \in 1..Len(url.query) : Lower(url.query[i][1]) \in InternalParams

\* C17: generate_candidates(strategy, max_candidates) returns at most
\* max_candidates urls, no two of them equal once internal parameters are
\* stripped, for each strategy; and none when there are no patterns.
C17_CandidatesBounded ==
    gen_last.op = "generate" =>
        /\ Len(candidates) <= gen_last.max_candidates
        /\ \A i, j \in 1..Len(candidates) :
              i # j => _strip_internal_params(candidates[i]) #
                       _strip_internal_params(candidates[j])
        /\ DOMAIN learned_patterns = {} => candidates = <<>>

\* a hybrid generation in which suggestions and combinations gave the same
\* url more than once
C17_Witness ==
    /\ gen_last.op = "generate" /\ gen_last.strategy = "hybrid"
    /\ Len(candidates) >= 2
    /\ Len(raw_candidates(learned_patterns, "hybrid")) > Len(candidates)
    /\ Len(candidates) < gen_last.max_candidates

\* C18: no url returned by generate_candidates carries a query parameter
\* named confidence or reasoning, in any letter case.
C18_NoInternalParams ==
    gen_last.op = "generate" =>
        \A i \in 1..Len(candidates) : ~HasInternalParam(candidates[i])

\* a generation one of whose urls carried such a parameter before cleaning
C18_Witness ==
    /\ gen_last.op = "generate" /\ candidates # <<>>
    /\ \E i \in 1..Len(raw_candidates(learned_patterns, gen_last.strategy)) :
          HasInternalParam(raw_candidates(learned_patterns, gen_last.strategy)[i])

\* C19: no candidate url of an iteration equals the url of a feed the
\* patterns were learned from, nor a url already in discovered_feeds.
C19_CandidatesNew ==
    gen_last.op = "generate" =>
        \A i \in 1..Len(candidates) :
            /\ candidates[i] \notin {current_feeds[j].url : j \in 1..Len(current_feeds)}
            /\ candidates[i] \notin rag_known

\* C20: the new_feeds_found of an iteration that ran to its end is the number
\* of urls validated in it that were neither among the seed feeds nor in
\* discovered_feeds before, and discovered_feeds grows by that many distinct
\* urls.
C20_NewFeedsCounted ==
    [][(pc = "loop" /\ Len(stats_iterations') = Len(stats_iterations) + 1) =>
            LET validated == SubSeq(discovered_feeds', Len(discovered_feeds) + 1,
                                    Len(discovered_feeds'))
                new == UrlsOf(validated) \ (UrlsOf(validated_feeds) \cup UrlsOf(discovered_feeds))
            IN  /\ stats_iterations'[Len(stats_iterations')].new_feeds_found = Cardinality(new)
                /\ Cardinality(UrlsOf(discovered_feeds')) =
                       Cardinality(UrlsOf(discovered_feeds)) + Cardinality(new)]_vars


\* C21: after RAGAgent.learn_patterns(feeds), learned_patterns is the
\* URL-structure summary of feeds overlaid with the keys of that call's LLM
\* result (the LLM's keys win), and nothing else: its keys are those of the two
\* dicts, so whatever an earlier iteration learned is gone, and the value is a
\* function of this call's feeds and LLM result alone.
C21_PatternsRegenerated ==
    gen_last.op # "none" =>
        LET structure == analyze(current_feeds, gen_llm.reversed)
            patterns == gen_llm.patterns
        IN  /\ DOMAIN learned_patterns = DOMAIN structure \cup DOMAIN patterns
            /\ \A k \in DOMAIN learned_patterns :
                    learned_patterns[k] = IF k \in DOMAIN patterns THEN patterns[k]
                                          ELSE structure[k]

\* a second learn_patterns whose LLM result is {} has returned, on feeds with
\* parameters: the suggestions of the first iteration, if any, are not there
C21_Witness ==
    /\ gen_last.op = "learn" /\ gen_last.iteration = 2
    /\ gen_llm.patterns = EmptyDict
    /\ current_feeds # <<>>
    /\ DOMAIN learned_patterns = {"domain", "parameters"}


\* C22: every pass of the coordinator loop in which run_iteration returns
\* appends exactly one record to LearningAgent.iteration_history; the records
\* already there are never changed or removed, so the history is as long as
\* the number of RAG iterations that completed.
C22_OneRecordPerIteration ==
    /\ [](Len(iteration_history) = Len(stats_iterations))
    /\ [][/\ Len(iteration_history') >= Len(iteration_history)
          /\ SubSeq(iteration_history', 1, Len(iteration_history)) = iteration_history
          /\ Len(stats_iterations') = Len(stats_iterations) + 1
                => Len(iteration_history') = Len(iteration_history) + 1]_vars

\* Phase 2 is over after three passes, two of which completed run_iteration,
\* the last of them without a new feed
C22_Witness ==
    /\ pc = "final" /\ run_calls = 3
    /\ Len(iteration_history) = 2
    /\ iteration_history[2].new_feeds_found = 0


\* C23: in every record of iteration_history, candidates_validated is the
\* number of candidates the validator tested in that iteration, the valid and
\* the rejected ones together, and success_rate is new_feeds_found divided by
\* that number (by 1 when it is 0), hence between 0 and 1.
C23_SuccessRateOfTested ==
    \A i \in 1..Len(iteration_history) :
        LET rec == iteration_history[i]
            res == stats_iterations[i]
            tested == IF ai_validator THEN res.validated_count + res.rejected_count
                      ELSE res.candidates_generated
        IN  /\ rec.candidates_validated = tested
            /\ rec.success_rate = Ratio(rec.new_feeds_found, Max(1, tested))
            /\ 0 <= rec.success_rate.num /\ rec.success_rate.num <= rec.success_rate.den


\* C27: get_convergence_assessment(n) is a threshold function of the
\* new_feeds_found counts of the last n records: with fewer than n records it
\* answers not converging with confidence 0; otherwise, s being the sum of the
\* last n counts, converging with 0.95 when s = 0, converging with 0.80 when
\* 0 < s < n, converging with 0.60 when n <= s < 3n, and not converging with
\* 0.70 when s >= 3n; and the call leaves the history as it was.
C27_ConvergenceThresholds ==
    /\ [](llast.op = "assess" =>
            LET n == llast.recent_iterations
                H == iteration_history
                s == SumNew(SubSeq(H, Len(H) - n + 1, Len(H)))
            IN  llast.result =
                    IF Len(H) < n THEN Assessment(FALSE, 0)
                    ELSE IF s = 0 THEN Assessment(TRUE, 95)
                    ELSE IF s < n THEN Assessment(TRUE, 80)
                    ELSE IF s < 3 * n THEN Assessment(TRUE, 60)
                    ELSE Assessment(FALSE, 70))
    /\ [][llast'.op = "assess" => iteration_history' = iteration_history]_vars

\* an assessment over the last two of three records, whose counts add up to
\* 3 n or more
C27_Witness ==
    /\ llast.op = "assess" /\ llast.recent_iterations = 2
    /\ Len(iteration_history) = 3
    /\ iteration_history[2].new_feeds_found + iteration_history[3].new_feeds_found >= 6
    /\ llast.result = Assessment(FALSE, 70)


\* the number of combinations of the lists after the i-th
RECURSIVE Weight(_, _)
Weight(lists, i) == IF i >= Len(lists) THEN 1 ELSE Len(lists[i + 1]) * Weight(lists, i + 1)

\* the n-th combination of the cartesian product of lists, the last list
\* varying fastest
Combination(lists, n) ==
    [i \in 1..Len(lists) |-> lists[i][(((n - 1) \div Weight(lists, i)) % Len(lists[i])) + 1]]

\* what _generate_systematic has returned is the first 25 combinations of the
\* first five observed values of the parameters, in product order, each as
\* the url UrlOf makes of the pairs of the combination
SystematicIs(UrlOf(_)) ==
    gen_last.op = "systematic" =>
        LET parameters == Get(learned_patterns, "parameters", <<>>)
            lists == [i \in 1..Len(parameters) |-> Take(parameters[i].observed_values, 5)]
            total == Len(lists[1]) * Weight(lists, 1)
        IN  IF parameters = <<>> THEN candidates = <<>>
            ELSE /\ Len(candidates) = Min(25, total)
                 /\ \A n \in 1..Len(candidates) :
                        candidates[n] =
                            UrlOf([i \in 1..Len(lists) |->
                                      Pair(parameters[i].name, Combination(lists, n)[i])])

\* C26: _generate_systematic yields the cartesian product, in product order,
\* of the first five observed values of each learned parameter, cut to its
\* first 25 combinations: every url assigns each parameter the value of its
\* combination, there are at most 25 urls, and none without parameters.
C26_SystematicProduct ==
    SystematicIs(LAMBDA pairs : Url(BaseUrl, TRUE, pairs))

\* the same, a url leaving out the parameters whose value in the combination
\* is '' or 'None'
C26_SystematicProductKept ==
    SystematicIs(LAMBDA pairs :
                    Url(BaseUrl, TRUE, SelectSeq(pairs, LAMBDA kv : kv[2] \notin {"", "None"})))

\* three parameters of more than five values each: 125 combinations, of
\* which 25 are returned
C26_Witness ==
    /\ gen_last.op = "systematic"
    /\ Len(candidates) = 25
    /\ Len(Get(learned_patterns, "parameters", <<>>)) = 3
    /\ \A i \in 1..3 : Len(learned_patterns["parameters"][i].observed_values) > 5
    /\ candidates[25].query = <<Pair("lang", "1"), Pair("reg", "5"), Pair("cat", "5")>>


\* C24: process_query searches the user's language first and all languages
\* only when that search returned nothing; cross_language_used is true exactly
\* when the results returned come from the all-languages search; when both
\* searches return nothing the response has an error, results_count 0 and no
\* results; results_count is the length of results and at most the limit.
C24_FallbackOnlyOnNoResults ==
    qlast.op = "process_query" =>
        LET out == qlast.out
            resp == out.response
        IN  /\ (out.searches = 2) <=> (out.first = <<>>)
            /\ out.searches \in {1, 2}
            /\ resp.cross_language_used <=>
                    (out.searches = 2 /\ resp.results # <<>>
                        /\ resp.results =
                               [i \in 1..Len(resp.results) |->
                                   Processed(out.second[i], qlast.user_language_code)])
            /\ (out.first = <<>> /\ out.second = <<>>) =>
                    (resp.error /\ resp.results_count = 0 /\ resp.results = <<>>)
            /\ resp.results_count = Len(resp.results)
            /\ resp.results_count <= qlast.limit
            /\ ~resp.cross_language_used /\ ~resp.error =>
                    resp.results = [i \in 1..Len(resp.results) |->
                                       Processed(out.first[i], qlast.user_language_code)]

\* the search in the user's language found nothing, the search in all
\* languages did, and the response carries a result in another language
C24_Witness ==
    /\ qlast.op = "process_query"
    /\ qlast.out.first = <<>> /\ qlast.out.searches = 2
    /\ qlast.out.response.cross_language_used
    /\ qlast.out.response.results_count = 2
    /\ qlast.out.response.results[1].was_translated

\* C25: process_query honours the content_type filter: with 'News' every
\* result returned has content_type 'news', with 'Education' every result
\* returned has content_type 'education'.
C25_ContentTypeHonoured ==
    qlast.op = "process_query" =>
        \A i \in 1..Len(qlast.out.response.results) :
            /\ qlast.content_type = "News" =>
                    qlast.out.response.results[i].content_type = "news"
            /\ qlast.content_type = "Education" =>
                    qlast.out.response.results[i].content_type = "education"

====
